---------------------------- MODULE Spec2Model ----------------------------
(***************************************************************************)
(* Model of the decoy service of ai/app.py: the string mutation functions  *)
(* (character_substitution_decoy, structural_variation_decoy,              *)
(* generate_decoy), the lazily initialised classifier                      *)
(* (load_or_create_model, before_request) and the /generate and /evaluate  *)
(* request handlers.                                                       *)
(*                                                                         *)
(* A string is a sequence of one-character strings.  Characters outside    *)
(* ASCII are written by their code point ("U+00E1").                       *)
(***************************************************************************)
EXTENDS Integers, Sequences, FiniteSets, TLC

VARIABLES
    call,        \* SpecGen: the function called directly and its arguments
    ret,         \* SpecGen: what the call produced, NoRet before it ran
    model,       \* the global `model` of app.py
    vectorizer,  \* the global `vectorizer` of app.py
    files,       \* models/decoy_model.pkl and models/vectorizer.pkl
    writers,     \* the request threads that have opened a model file for writing
    pc,          \* per request thread: the statement it is at
    req,         \* per request thread: the request it is serving
    loc,         \* per request thread: the local variables of its handler
    resp         \* per request thread: the response it has sent

genVars == <<call, ret>>
svcVars == <<model, vectorizer, files, writers, pc, req, loc, resp>>
vars == <<call, ret, model, vectorizer, files, writers, pc, req, loc, resp>>

(***************************************************************************)
(* Bounds of the model.                                                    *)
(***************************************************************************)
MaxLen == 3            \* longest target string drawn as an input
NumThreads == 2        \* request threads of the concurrent server
MaxDecoys == 3         \* longest decoys list of an evaluate request

(***************************************************************************)
(* Outcomes of a Python call: a returned value or a raised exception.      *)
(***************************************************************************)
NoRet == [kind |-> "none"]
Value(v) == [kind |-> "value", value |-> v]
Raise(e) == [kind |-> "raise", error |-> e]

(***************************************************************************)
(* Characters.  Alphabet holds one representative of every class the code  *)
(* tells apart: a letter of the substitution table, a lower-case and an    *)
(* upper-case letter outside it, a digit, a character that is neither.     *)
(***************************************************************************)
Alphabet == {"a", "k", "K", "7", "+"}

LowerLetters == {"a","b","c","d","e","f","g","h","i","j","k","l","m",
                 "n","o","p","q","r","s","t","u","v","w","x","y","z"}
UpperLetters == {"A","B","C","D","E","F","G","H","I","J","K","L","M",
                 "N","O","P","Q","R","S","T","U","V","W","X","Y","Z"}
Digits == {"0","1","2","3","4","5","6","7","8","9"}

\* str.isalpha, str.isupper, str.isdigit on the characters of Alphabet
IsAlpha(ch) == ch \in LowerLetters \cup UpperLetters
IsUpper(ch) == ch \in UpperLetters
IsDigit(ch) == ch \in Digits
\* the regular expression classes \w and \d
IsWordChar(ch) == IsAlpha(ch) \/ IsDigit(ch) \/ ch = "_"

\* str.lower on one character
ToLower(ch) ==
    IF ch = "A" THEN "a" ELSE IF ch = "K" THEN "k" ELSE ch

\* the dictionary `substitutions` of character_substitution_decoy
substitutions ==
    [a |-> {"@", "4", "U+00E1"},
     b |-> {"6", "8", "U+00DF"},
     e |-> {"3", "U+00E9", "U+00EB"},
     i |-> {"1", "!", "U+00ED"},
     l |-> {"1", "|", "U+0142"},
     o |-> {"0", "U+00F8", "U+00F3"},
     s |-> {"5", "$", "U+0161"},
     t |-> {"7", "+", "U+0163"},
     z |-> {"2", "U+017E", "U+017C"}]

special_chars == {"!", "@", "#", "$", "%", "^", "&", "*", "-", "_", "+", "="}

\* all strings over Alphabet of length 0..n
StringsUpTo(n) == UNION {[1..k -> Alphabet] : k \in 0..n}

(***************************************************************************)
(* character_substitution_decoy(target, similarity).  The similarity is    *)
(* 1 - d/20 at every call site (d = complexity in generate_decoy, d = 6    *)
(* for the 0.7 of the training corpus); the operators take d.              *)
(***************************************************************************)

\* int((1.0 - similarity) * len(target)).  In binary floating point
\* 1.0 - (1.0 - d/20.0) is just below d/20 for d = 2 and d = 4, so a product
\* that would be a whole number is truncated to the number below it.
TruncatedShare(d, n) ==
    IF d \in {2, 4} /\ n > 0 /\ (d * n) % 20 = 0
    THEN (d * n) \div 20 - 1
    ELSE (d * n) \div 20

Max(x, y) == IF x >= y THEN x ELSE y
Min(x, y) == IF x <= y THEN x ELSE y

\* num_to_modify = max(1, min(num_to_modify, len(target) - 1))
NumToModify(d, n) == Max(1, Min(TruncatedShare(d, n), n - 1))

\* np.random.choice(n, size=k, replace=False): the sets of k distinct
\* positions (1-based here); it raises ValueError when k > n.
PositionChoices(n, k) == {P \in SUBSET (1..n) : Cardinality(P) = k}

\* the characters the loop body may put in place of ch
Replacements(ch) ==
    IF ToLower(ch) \in DOMAIN substitutions THEN substitutions[ToLower(ch)]
    ELSE IF IsAlpha(ch) THEN (IF IsUpper(ch) THEN UpperLetters ELSE LowerLetters)
    ELSE IF IsDigit(ch) THEN Digits \ {ch}
    ELSE special_chars

\* the strings the loop over `positions` can produce
SubstituteAt(target, P) ==
    {[i \in 1..Len(target) |-> IF i \in P THEN f[i] ELSE target[i]] :
        f \in {g \in [P -> UNION {Replacements(target[p]) : p \in P}] :
                  \A p \in P : g[p] \in Replacements(target[p])}}

\* every run of character_substitution_decoy: the positions drawn at line
\* 118 and the outcome of the call
SubstitutionRuns(target, d) ==
    LET n == Len(target)
        k == NumToModify(d, n)
    IN  IF k > n
        THEN {[positions |-> {}, outcome |-> Raise("ValueError")]}
        ELSE UNION {{[positions |-> P, outcome |-> Value(s)] :
                        s \in SubstituteAt(target, P)} :
                    P \in PositionChoices(n, k)}

\* every outcome of character_substitution_decoy
character_substitution_decoy(target, d) ==
    {run.outcome : run \in SubstitutionRuns(target, d)}

(***************************************************************************)
(* structural_variation_decoy(target, similarity)                          *)
(***************************************************************************)

\* the list `patterns`: the regular expression and the replacement template
patterns ==
    <<[re |-> "(\\w+)(\\d+)", pre |-> <<>>, sep |-> <<"-">>, post |-> <<>>, valid |-> TRUE],
      [re |-> "(\\w+)(\\d+)", pre |-> <<>>, sep |-> <<"_">>, post |-> <<>>, valid |-> TRUE],
      [re |-> "(\\w+)", pre |-> <<>>, sep |-> <<>>,
       post |-> <<"-", "p", "r", "i", "m", "e">>, valid |-> TRUE],
      [re |-> "(\\w+)", pre |-> <<>>, sep |-> <<>>, post |-> <<"v", "2">>, valid |-> TRUE],
      [re |-> "(\\w+)", pre |-> <<"l", "i", "g", "h", "t">>, sep |-> <<>>,
       post |-> <<>>, valid |-> TRUE],
      [re |-> "(\\w+)", pre |-> <<"f", "i", "r", "e">>, sep |-> <<>>,
       post |-> <<>>, valid |-> TRUE],
      [re |-> "(\\w+)(\\d+)", pre |-> <<>>, sep |-> <<"-">>, post |-> <<>>, valid |-> TRUE],
      \* the template r'\1\d': \d is no escape of a replacement template
      [re |-> "(\\w+)", pre |-> <<>>, sep |-> <<>>, post |-> <<>>, valid |-> FALSE]>>

\* the last index of the maximal run of \w characters that starts at i
RECURSIVE RunEnd(_, _)
RunEnd(s, i) ==
    IF i < Len(s) /\ IsWordChar(s[i + 1]) THEN RunEnd(s, i + 1) ELSE i

\* the slice s[i..j], empty when j < i
Slice(s, i, j) == IF j < i THEN <<>> ELSE SubSeq(s, i, j)

\* (\w+)(\d+) on the run s[i..e]: the greedy \w+ gives characters back until
\* a digit follows it, so group 2 is the single last digit of the run; there
\* is no match when the run has no digit after its first character.
LastDigit(s, i, e) ==
    LET ds == {k \in (i + 1)..e : IsDigit(s[k])}
    IN  IF ds = {} THEN 0 ELSE CHOOSE k \in ds : \A m \in ds : m <= k

\* re.sub(pattern, replacement, s) from position i on
RECURSIVE ReSubFrom(_, _, _)
ReSubFrom(p, s, i) ==
    IF i > Len(s) THEN <<>>
    ELSE IF ~IsWordChar(s[i]) THEN <<s[i]>> \o ReSubFrom(p, s, i + 1)
    ELSE LET e == RunEnd(s, i)
             k == LastDigit(s, i, e)
         IN  IF p.re = "(\\w+)"
             THEN p.pre \o Slice(s, i, e) \o p.post \o ReSubFrom(p, s, e + 1)
             ELSE IF k = 0
             THEN Slice(s, i, e) \o ReSubFrom(p, s, e + 1)
             ELSE Slice(s, i, k - 1) \o p.sep \o <<s[k]>>
                      \o Slice(s, k + 1, e) \o ReSubFrom(p, s, e + 1)

\* re.sub parses the template before it searches: a bad escape raises
\* re.error whatever the string is
ReSub(p, s) == IF p.valid THEN Value(ReSubFrom(p, s, 1)) ELSE Raise("re.error")

\* structural_variation_decoy with the pattern at 1-based index idx
StructuralWith(idx, target, d) ==
    LET result == ReSub(patterns[idx], target)
    IN  IF result.kind = "raise" THEN {result}
        ELSE IF result.value = target THEN character_substitution_decoy(target, d)
        ELSE {result}

\* every run of structural_variation_decoy: the index drawn at line 179
\* (1-based here) and the outcome of the call
StructuralRuns(target, d) ==
    UNION {{[pattern_idx |-> idx, outcome |-> o] :
               o \in StructuralWith(idx, target, d)} :
           idx \in 1..Len(patterns)}

\* every outcome of structural_variation_decoy
structural_variation_decoy(target, d) ==
    {run.outcome : run \in StructuralRuns(target, d)}

(***************************************************************************)
(* generate_decoy(target, complexity)                                      *)
(***************************************************************************)
generate_decoy(target, complexity) ==
    IF target = <<>> THEN {Value(<<>>)}
    ELSE IF complexity <= 3 THEN character_substitution_decoy(target, complexity)
    ELSE IF complexity <= 7
    THEN character_substitution_decoy(target, complexity)
             \cup structural_variation_decoy(target, complexity)
    ELSE structural_variation_decoy(target, complexity)

(***************************************************************************)
(* The classifier and its feature extractor.  A fitted object carries the  *)
(* identity of the training corpus its vocabulary comes from: the thread   *)
(* whose call of load_or_create_model built the corpus (its sample_fake is *)
(* random), or 0 for a corpus of an earlier process, found in the files.   *)
(***************************************************************************)
Threads == 1..NumThreads

None == [kind |-> "None"]
Unfitted == [kind |-> "unfitted"]
Fitted(v) == [kind |-> "fitted", vocab |-> v]

\* a model file: absent, present but not loadable by pickle (truncated by
\* open(..., 'wb') and not yet or never written), or a pickled object
Missing == [kind |-> "missing"]
Unreadable == [kind |-> "unreadable"]
Snapshot(obj) == [kind |-> "snapshot", obj |-> obj]

\* Optional request fields: dict.get gives None for an absent key
Absent == <<>>
Some(v) == <<v>>
Get(field, default) == IF field = Absent THEN default ELSE field[1]

NoRequest == [kind |-> "none"]
NoResponse == [status |-> 0]

\* the local variables of a handler, before it runs
NoLocals ==
    [X |-> None,            \* load_or_create_model: the feature matrix X
     complexity |-> 0, count |-> 0,
     ndecoys |-> 0,         \* len(decoys) of generate_decoys
     nscores |-> 0,         \* len(effectiveness_scores) of generate_decoys
     i |-> 0,               \* decoys of the request evaluated so far
     site |-> "none",       \* which predict_proba call is under way
     feat |-> None,         \* X = vectorizer.transform([decoy])
     effectiveness |-> 0,   \* of the current decoy, in hundredths
     proba |-> Absent,      \* what predict_proba gave evaluate_decoy for it
     results |-> <<>>,      \* `results` of evaluate_decoys_endpoint
     db |-> "none",         \* how the attempt to store the decoys went
     inserted |-> 0,        \* rows this request committed to the decoys table
     aggregated |-> FALSE]  \* whether the aggregate metrics were computed


(***************************************************************************)
(* calculate_similarity: difflib.SequenceMatcher(None, decoy, target)      *)
(* .ratio(), 2 * M / T with M the characters in the matching blocks.       *)
(* No character is junk (isjunk is None, and the automatic junk heuristic  *)
(* needs 200 characters).                                                  *)
(***************************************************************************)

\* find_longest_match on a[alo..ahi], b[blo..bhi]: the longest common block,
\* among the longest the one starting earliest in a, then earliest in b
LongestMatch(a, b, alo, ahi, blo, bhi) ==
    LET cands == {c \in (alo..ahi) \X (blo..bhi) \X (1..(ahi - alo + 1)) :
                     /\ c[1] + c[3] - 1 <= ahi
                     /\ c[2] + c[3] - 1 <= bhi
                     /\ \A x \in 0..(c[3] - 1) : a[c[1] + x] = b[c[2] + x]}
    IN  IF cands = {} THEN <<alo, blo, 0>>
        ELSE CHOOSE c \in cands : \A o \in cands :
                 \/ c[3] > o[3]
                 \/ c[3] = o[3] /\ c[1] < o[1]
                 \/ c[3] = o[3] /\ c[1] = o[1] /\ c[2] <= o[2]

\* get_matching_blocks: the longest block, then the same to its left and to
\* its right; the sum of the block sizes
RECURSIVE MatchedChars(_, _, _, _, _, _)
MatchedChars(a, b, alo, ahi, blo, bhi) ==
    IF alo > ahi \/ blo > bhi THEN 0
    ELSE LET m == LongestMatch(a, b, alo, ahi, blo, bhi)
         IN  IF m[3] = 0 THEN 0
             ELSE m[3]
                  + MatchedChars(a, b, alo, m[1] - 1, blo, m[2] - 1)
                  + MatchedChars(a, b, m[1] + m[3], ahi, m[2] + m[3], bhi)

\* the ratio as the fraction <<numerator, denominator>>; 1.0 for two empty
\* strings
calculate_similarity(decoy, target) ==
    LET T == Len(decoy) + Len(target)
    IN  IF T = 0 THEN <<1, 1>>
        ELSE <<2 * MatchedChars(decoy, target, 1, Len(decoy), 1, Len(target)), T>>

\* round(num / den * 100): Python rounds a tie to the even neighbour
RoundHalfEven(num, den) ==
    LET q == num \div den
        r == num % den
    IN  IF 2 * r < den THEN q
        ELSE IF 2 * r > den THEN q + 1
        ELSE IF q % 2 = 0 THEN q ELSE q + 1

\* what predict_proba(X)[0][1] of a fitted forest can be, in percent: the
\* forest is not modelled, any of these values may come out
ProbaValues == {0, 50, 100}

\* the real_probability of the else branch of evaluate_decoy, in percent
DefaultProbability == 50

\* round(effectiveness, 2) in hundredths, for effectiveness =
\* similarity * 0.5 + real_probability * 0.5 and real_probability = p / 100
RoundedEffectiveness(sim, p) ==
    RoundHalfEven(100 * sim[1] + p * sim[2], 2 * sim[2])

\* round(similarity, 2) in hundredths
RoundedSimilarity(sim) == RoundHalfEven(100 * sim[1], sim[2])

(***************************************************************************)
(* results.sort(key=lambda x: x["effectiveness"], reverse=True)            *)
(***************************************************************************)

\* an ascending sort read backwards: equal keys come out in reverse order
RECURSIVE InsertBeforeEqual(_, _)
InsertBeforeEqual(sorted, x) ==
    IF sorted = <<>> THEN <<x>>
    ELSE IF Head(sorted).effectiveness > x.effectiveness
    THEN <<Head(sorted)>> \o InsertBeforeEqual(Tail(sorted), x)
    ELSE <<x>> \o sorted

\* list.sort is stable, also with reverse=True: an element goes behind
\* every element whose key is at least its own
RECURSIVE InsertDescending(_, _)
InsertDescending(sorted, x) ==
    IF sorted = <<>> THEN <<x>>
    ELSE IF Head(sorted).effectiveness >= x.effectiveness
    THEN <<Head(sorted)>> \o InsertDescending(Tail(sorted), x)
    ELSE <<x>> \o sorted

RECURSIVE SortByEffectiveness(_)
SortByEffectiveness(results) ==
    IF results = <<>> THEN <<>>
    ELSE InsertDescending(SortByEffectiveness(SubSeq(results, 1, Len(results) - 1)),
                          results[Len(results)])

(***************************************************************************)
(* The service.  Every request runs before_request and then its handler    *)
(* on a thread of its own; a step is one statement that reads or writes    *)
(* the globals, the files or the database.  An exception that leaves       *)
(* before_request or a handler is answered by Flask with status 500.       *)
(***************************************************************************)

SetPc(t, label) == pc' = [pc EXCEPT ![t] = label]
SetLoc(t, l) == loc' = [loc EXCEPT ![t] = l]
Respond(t, r) == /\ pc' = [pc EXCEPT ![t] = "done"]
                 /\ resp' = [resp EXCEPT ![t] = r]

\* an unhandled exception
Fail(t, e) == Respond(t, [status |-> 500, error |-> e])

\* a client error: jsonify({"error": ...}), 400
Reject(t, e) == Respond(t, [status |-> 400, error |-> e])

\* the view function Flask dispatches the request to
Handler(r) ==
    IF r.kind = "health" THEN "health"
    ELSE IF r.kind = "generate" THEN "generate_decoys"
    ELSE "evaluate_decoys_endpoint"

\* the statements of load_or_create_model
LoadPcs == {"load_exists", "load_model", "load_vectorizer", "new_model",
            "new_vectorizer", "fit_transform", "fit", "dump_model_open",
            "dump_model_write", "dump_vectorizer_open", "dump_vectorizer_write"}

\* a before_request without its guard: every request initialises
AlwaysLoads(m) == TRUE

\* before_request: if model is None: load_or_create_model()
BeforeRequestLoads(m) == m = None

before_request(t) ==
    /\ pc[t] = "before_request"
    /\ IF BeforeRequestLoads(model)
       THEN SetPc(t, "load_exists")
       ELSE SetPc(t, Handler(req[t]))
    /\ UNCHANGED <<call, ret, model, vectorizer, files, writers, req, loc, resp>>

\* os.path.exists(model_path) and os.path.exists(vectorizer_path)
LoadExists(t) ==
    /\ pc[t] = "load_exists"
    /\ IF files.model # Missing /\ files.vectorizer # Missing
       THEN SetPc(t, "load_model")
       ELSE SetPc(t, "new_model")
    /\ UNCHANGED <<call, ret, model, vectorizer, files, writers, req, loc, resp>>

\* model = pickle.load(open(model_path, 'rb'))
LoadModel(t) ==
    /\ pc[t] = "load_model"
    /\ IF files.model.kind = "snapshot"
       THEN /\ model' = files.model.obj
            /\ SetPc(t, "load_vectorizer")
            /\ UNCHANGED resp
       ELSE /\ Fail(t, "UnpicklingError")
            /\ UNCHANGED model
    /\ UNCHANGED <<call, ret, vectorizer, files, writers, req, loc>>

\* vectorizer = pickle.load(open(vectorizer_path, 'rb')); return True
LoadVectorizer(t) ==
    /\ pc[t] = "load_vectorizer"
    /\ IF files.vectorizer.kind = "snapshot"
       THEN /\ vectorizer' = files.vectorizer.obj
            /\ SetPc(t, Handler(req[t]))
            /\ UNCHANGED resp
       ELSE /\ Fail(t, "UnpicklingError")
            /\ UNCHANGED vectorizer
    /\ UNCHANGED <<call, ret, model, files, writers, req, loc>>

\* model = RandomForestClassifier(n_estimators=100)
NewModel(t) ==
    /\ pc[t] = "new_model"
    /\ model' = Unfitted
    /\ SetPc(t, "new_vectorizer")
    /\ UNCHANGED <<call, ret, vectorizer, files, writers, req, loc, resp>>

\* the corpus (sample_real, sample_fake: character_substitution_decoy of
\* names of 4 to 14 characters, which returns), then
\* vectorizer = CountVectorizer(analyzer='char', ngram_range=(2, 5))
NewVectorizer(t) ==
    /\ pc[t] = "new_vectorizer"
    /\ vectorizer' = Unfitted
    /\ SetPc(t, "fit_transform")
    /\ UNCHANGED <<call, ret, model, files, writers, req, loc, resp>>

\* X = vectorizer.fit_transform(all_data): fits the object the global names
\* now to this thread's corpus
FitTransform(t) ==
    /\ pc[t] = "fit_transform"
    /\ vectorizer' = Fitted(t)
    /\ SetLoc(t, [loc[t] EXCEPT !.X = Fitted(t)])
    /\ SetPc(t, "fit")
    /\ UNCHANGED <<call, ret, model, files, writers, req, resp>>

\* model.fit(X, y): fits the object the global names now to this thread's X
Fit(t) ==
    /\ pc[t] = "fit"
    /\ model' = loc[t].X
    /\ SetPc(t, "dump_model_open")
    /\ UNCHANGED <<call, ret, vectorizer, files, writers, req, loc, resp>>

\* open(path, 'wb') of a pickle.dump: truncates the file, or raises OSError
DumpOpen(t, at, file, next) ==
    /\ pc[t] = at
    /\ \/ /\ files' = [files EXCEPT ![file] = Unreadable]
          /\ writers' = writers \cup {t}
          /\ SetPc(t, next)
          /\ UNCHANGED resp
       \/ /\ Fail(t, "OSError")
          /\ UNCHANGED <<files, writers>>
    /\ UNCHANGED <<call, ret, model, vectorizer, req, loc>>

\* pickle.dump(obj, file): writes the pickle, or raises OSError part-way
DumpWrite(t, at, file, obj, next) ==
    /\ pc[t] = at
    /\ \/ /\ files' = [files EXCEPT ![file] = Snapshot(obj)]
          /\ SetPc(t, next)
          /\ UNCHANGED resp
       \/ /\ Fail(t, "OSError")
          /\ UNCHANGED files
    /\ UNCHANGED <<call, ret, model, vectorizer, writers, req, loc>>

\* pickle.dump(model, open(model_path, 'wb'))
DumpModelOpen(t) == DumpOpen(t, "dump_model_open", "model", "dump_model_write")
DumpModelWrite(t) ==
    DumpWrite(t, "dump_model_write", "model", model, "dump_vectorizer_open")

\* pickle.dump(vectorizer, open(vectorizer_path, 'wb')); return True
DumpVectorizerOpen(t) ==
    DumpOpen(t, "dump_vectorizer_open", "vectorizer", "dump_vectorizer_write")
DumpVectorizerWrite(t) ==
    DumpWrite(t, "dump_vectorizer_write", "vectorizer", vectorizer, Handler(req[t]))

\* load_or_create_model, statement by statement
load_or_create_model(t) ==
    \/ LoadExists(t)
    \/ LoadModel(t)
    \/ LoadVectorizer(t)
    \/ NewModel(t)
    \/ NewVectorizer(t)
    \/ FitTransform(t)
    \/ Fit(t)
    \/ DumpModelOpen(t)
    \/ DumpModelWrite(t)
    \/ DumpVectorizerOpen(t)
    \/ DumpVectorizerWrite(t)

\* the /health view
health(t) ==
    /\ pc[t] = "health"
    /\ Respond(t, [status |-> 200, body |-> "operational"])
    /\ UNCHANGED <<call, ret, model, vectorizer, files, writers, req, loc>>

(***************************************************************************)
(* evaluate_decoy(decoy, target), and the same three statements at lines   *)
(* 333-335 of evaluate_decoys_endpoint.  loc.site tells the two apart.     *)
(***************************************************************************)

\* the decoy the thread is scoring (the decoys of generate_decoys are kept
\* by their number only, see GenerateDecoy)
CurrentDecoy(t) == req[t].decoys[1][loc[t].i + 1]

\* one result of evaluate_decoys_endpoint; real_probability is there only
\* when line 333 found both globals set
Result(t, p) ==
    [decoy |-> CurrentDecoy(t),
     effectiveness |-> loc[t].effectiveness,
     similarity |-> RoundedSimilarity(
                        calculate_similarity(CurrentDecoy(t), req[t].target[1])),
     real_probability |-> p]

\* the statements after real_probability is known to be p percent (Absent
\* when line 333 skipped it)
Proceed(t, p) ==
    IF req[t].kind = "generate"
    THEN \* effectiveness_scores.append(effectiveness)
         /\ SetLoc(t, [loc[t] EXCEPT !.nscores = @ + 1, !.site = "none",
                                     !.feat = None])
         /\ SetPc(t, IF loc[t].nscores + 1 = loc[t].count
                     THEN "store" ELSE "generate_decoy")
    ELSE IF loc[t].site = "evaluate_decoy"
    THEN \* effectiveness = evaluate_decoy(decoy, target), rounded at line 329
         /\ SetLoc(t, [loc[t] EXCEPT
                !.effectiveness = RoundedEffectiveness(
                    calculate_similarity(CurrentDecoy(t), req[t].target[1]), p[1]),
                !.proba = IF pc[t] = "predict_proba"
                          THEN Some([by |-> model, X |-> loc[t].feat, p |-> p[1]])
                          ELSE Absent,
                !.site = "endpoint", !.feat = None])
         /\ SetPc(t, "guard")
    ELSE \* results.append(result)
         /\ SetLoc(t, [loc[t] EXCEPT !.results = Append(@, Result(t, p)),
                                     !.i = @ + 1, !.site = "evaluate_decoy",
                                     !.effectiveness = 0, !.proba = Absent,
                                     !.feat = None])
         /\ SetPc(t, IF loc[t].i + 1 = Len(req[t].decoys[1])
                     THEN "sort" ELSE "guard")

\* if model is not None and vectorizer is not None:
ModelAvailable(m, v) == m # None /\ v # None

Guard(t) ==
    /\ pc[t] = "guard"
    /\ IF ModelAvailable(model, vectorizer)
       THEN /\ SetPc(t, "transform")
            /\ UNCHANGED loc
       ELSE \* real_probability = 0.5 in evaluate_decoy, nothing at line 333
            Proceed(t, IF loc[t].site = "evaluate_decoy"
                       THEN Some(DefaultProbability) ELSE Absent)
    /\ UNCHANGED <<call, ret, model, vectorizer, files, writers, req, resp>>

\* X = vectorizer.transform([decoy]): NotFittedError without a vocabulary
Transform(t) ==
    /\ pc[t] = "transform"
    /\ IF vectorizer.kind = "fitted"
       THEN /\ SetLoc(t, [loc[t] EXCEPT !.feat = vectorizer])
            /\ SetPc(t, "predict_proba")
            /\ UNCHANGED resp
       ELSE /\ Fail(t, "NotFittedError")
            /\ UNCHANGED loc
    /\ UNCHANGED <<call, ret, model, vectorizer, files, writers, req>>

\* predict_proba is a function: the same forest gives the same X the value
\* it gave it in evaluate_decoy
PredictChoices(t) ==
    IF /\ loc[t].site = "endpoint"
       /\ loc[t].proba # Absent
       /\ loc[t].proba[1].by = model
       /\ loc[t].proba[1].X = loc[t].feat
    THEN {loc[t].proba[1].p}
    ELSE ProbaValues

\* real_probability = model.predict_proba(X)[0][1]: NotFittedError from an
\* unfitted forest; with X from another vocabulary, ValueError when the
\* numbers of features differ and a meaningless value when they agree
PredictProba(t) ==
    /\ pc[t] = "predict_proba"
    /\ \/ /\ model.kind # "fitted"
          /\ Fail(t, "NotFittedError")
          /\ UNCHANGED loc
       \/ /\ model.kind = "fitted"
          /\ model.vocab # loc[t].feat.vocab
          /\ Fail(t, "ValueError")
          /\ UNCHANGED loc
       \/ /\ model.kind = "fitted"
          /\ \E p \in PredictChoices(t) : Proceed(t, Some(p))
          /\ UNCHANGED resp
    /\ UNCHANGED <<call, ret, model, vectorizer, files, writers, req>>

(***************************************************************************)
(* generate_decoys, the view of /generate (the later definitions of        *)
(* `generate` and of a three-parameter generate_decoys register no route   *)
(* that is dispatched to: the first rule for a URL wins).                  *)
(***************************************************************************)
DefaultComplexity == 5
DefaultCount == 10
MaxComplexity == 10
MaxCount == 100

\* if not (1 <= complexity <= 10): complexity = 5
EffectiveComplexity(c) == IF 1 <= c /\ c <= MaxComplexity THEN c ELSE DefaultComplexity

\* a count clamped to the nearest end of its range instead
NearestCount(n) == IF n < 1 THEN 1 ELSE IF n > MaxCount THEN MaxCount ELSE n

\* if not (1 <= count <= 100): count = 10
EffectiveCount(n) == IF 1 <= n /\ n <= MaxCount THEN n ELSE DefaultCount

\* a test for the missing key alone: `if target is None`
IsNone(field) == field = Absent

\* `if not target`: None or the empty string
Falsy(field) == field = Absent \/ field[1] = <<>>

\* lines 239-261: the request is refused or its parameters are fixed
GenerateValidate(t) ==
    /\ pc[t] = "generate_decoys"
    /\ IF ~req[t].data
       THEN Reject(t, "No JSON data provided") /\ UNCHANGED loc
       ELSE IF Falsy(req[t].target)
       THEN Reject(t, "Target string is required") /\ UNCHANGED loc
       ELSE /\ SetLoc(t, [loc[t] EXCEPT
                   !.complexity = EffectiveComplexity(
                                      Get(req[t].complexity, DefaultComplexity)),
                   !.count = EffectiveCount(Get(req[t].count, DefaultCount))])
            /\ SetPc(t, "generate_decoy")
            /\ UNCHANGED resp
    /\ UNCHANGED <<call, ret, model, vectorizer, files, writers, req>>

\* decoy = generate_decoy(target, complexity); decoys.append(decoy), then
\* into evaluate_decoy.  The handler never looks into a decoy, so of the
\* list only its length is kept.
GenerateDecoy(t) ==
    /\ pc[t] = "generate_decoy"
    /\ \E o \in generate_decoy(req[t].target[1], loc[t].complexity) :
          IF o.kind = "raise"
          THEN Fail(t, o.error) /\ UNCHANGED loc
          ELSE /\ SetLoc(t, [loc[t] EXCEPT !.ndecoys = @ + 1,
                                           !.site = "evaluate_decoy"])
               /\ SetPc(t, "guard")
               /\ UNCHANGED resp
    /\ UNCHANGED <<call, ret, model, vectorizer, files, writers, req>>

\* how lines 274-287 can go: sqlite3.connect fails, every insert and the
\* commit succeed, or an insert or the commit fails
StorageOutcomes == {"no connection", "committed", "sqlite3.Error"}

\* a handler that lets the storage error go
CaughtNowhere(e) == FALSE

\* `except sqlite3.Error as e:` at line 219 and at line 286, around all of
\* sqlite3.connect, conn.cursor, cursor.execute and conn.commit
Caught(e) == e = "sqlite3.Error"

\* lines 274-287: init_db_connection gives None when sqlite3.connect fails;
\* the inserts are committed together, a sqlite3.Error among them is logged
\* and nothing is committed
Store(t) ==
    /\ pc[t] = "store"
    /\ \E outcome \in StorageOutcomes :
          IF outcome # "committed" /\ ~Caught("sqlite3.Error")
          THEN Fail(t, "sqlite3.Error") /\ UNCHANGED loc
          ELSE /\ SetLoc(t, [loc[t] EXCEPT
                      !.db = outcome,
                      !.inserted = IF outcome = "committed"
                                   THEN loc[t].ndecoys ELSE 0])
               /\ SetPc(t, "respond")
               /\ UNCHANGED resp
    /\ UNCHANGED <<call, ret, model, vectorizer, files, writers, req>>

\* sum(xs) / len(xs) over n numbers: the division raises on an empty list.
\* The quotient is not part of the model, only whether there is one.
Average(n) == IF n = 0 THEN Raise("ZeroDivisionError") ELSE Value("mean")

\* sum(xs) / len(xs) if xs else 0
AverageOrZero(n) == IF n # 0 THEN Average(n) ELSE Value(0)

\* lines 289-305: the metrics and the response
GenerateRespond(t) ==
    /\ pc[t] = "respond"
    /\ IF AverageOrZero(loc[t].nscores).kind = "raise"
       THEN Fail(t, AverageOrZero(loc[t].nscores).error) /\ UNCHANGED loc
       ELSE /\ SetLoc(t, [loc[t] EXCEPT !.aggregated = TRUE])
            /\ Respond(t, [status |-> 200,
                           decoys |-> loc[t].ndecoys,
                           target |-> req[t].target[1],
                           complexity |-> loc[t].complexity,
                           count |-> loc[t].count])
    /\ UNCHANGED <<call, ret, model, vectorizer, files, writers, req>>

(***************************************************************************)
(* evaluate_decoys_endpoint, the view of /evaluate                         *)
(***************************************************************************)

\* `if not decoys`: the default [] of an absent key, or an empty list
NoDecoys(field) == field = Absent \/ field[1] = <<>>

\* lines 310-321
EvaluateValidate(t) ==
    /\ pc[t] = "evaluate_decoys_endpoint"
    /\ IF ~req[t].data
       THEN Reject(t, "No JSON data provided") /\ UNCHANGED loc
       ELSE IF Falsy(req[t].target) \/ NoDecoys(req[t].decoys)
       THEN Reject(t, "Target and decoys are required") /\ UNCHANGED loc
       ELSE /\ SetLoc(t, [loc[t] EXCEPT !.site = "evaluate_decoy"])
            /\ SetPc(t, "guard")
            /\ UNCHANGED resp
    /\ UNCHANGED <<call, ret, model, vectorizer, files, writers, req>>

\* lines 340-352: the sort, the metrics and the response
EvaluateRespond(t) ==
    /\ pc[t] = "sort"
    /\ IF Average(Len(loc[t].results)).kind = "raise"
       THEN Fail(t, Average(Len(loc[t].results)).error) /\ UNCHANGED loc
       ELSE /\ SetLoc(t, [loc[t] EXCEPT !.aggregated = TRUE, !.site = "none"])
            /\ Respond(t, [status |-> 200,
                           target |-> req[t].target[1],
                           evaluations |-> SortByEffectiveness(loc[t].results)])
    /\ UNCHANGED <<call, ret, model, vectorizer, files, writers, req>>

(***************************************************************************)
(* The requests and the specifications.                                    *)
(***************************************************************************)
TargetName == <<"k", "7">>

HealthRequest == [kind |-> "health"]

GenerateRequest(data, target, complexity, count) ==
    [kind |-> "generate", data |-> data, target |-> target,
     complexity |-> complexity, count |-> count]

EvaluateRequest(data, target, decoys) ==
    [kind |-> "evaluate", data |-> data, target |-> target, decoys |-> decoys]

\* the requests of the concurrent server: well-formed, small
Requests ==
    {HealthRequest}
    \cup {GenerateRequest(TRUE, Some(TargetName), Some(c), Some(1)) : c \in {3, 8}}
    \cup {EvaluateRequest(TRUE, Some(TargetName), Some(<<(<<"k", "-", "7">>)>>))}

\* the requests of the sequential server: every shape, in and out of range
ComplexityInputs == {-1, 0, 1, 3, 4, 8, 10, 11, 999}
CountInputs == {-1, 0, 1, 2, 100, 101}
TargetInputs == {Absent, Some(<<>>), Some(TargetName)}
DecoyInputs == {<<"k", "7">>, <<"7", "k">>, <<"a">>}
DecoyLists == UNION {[1..n -> DecoyInputs] : n \in 0..MaxDecoys}

AnyRequests ==
    {HealthRequest}
    \cup {GenerateRequest(FALSE, Absent, Absent, Absent)}
    \cup {GenerateRequest(TRUE, tg, c, n) :
            tg \in TargetInputs,
            c \in {Absent} \cup {Some(x) : x \in ComplexityInputs},
            n \in {Absent} \cup {Some(x) : x \in CountInputs}}
    \cup {EvaluateRequest(FALSE, Absent, Absent)}
    \cup {EvaluateRequest(TRUE, tg, ds) :
            tg \in TargetInputs,
            ds \in {Absent} \cup {Some(l) : l \in DecoyLists}}

\* the model files a starting process can find: none, a pair written by an
\* earlier process, or what an earlier process left when it stopped inside
\* one of the two pickle.dump calls
InitialFiles ==
    {[model |-> Missing, vectorizer |-> Missing],
     [model |-> Unreadable, vectorizer |-> Missing],
     [model |-> Snapshot(Fitted(0)), vectorizer |-> Missing],
     [model |-> Snapshot(Fitted(0)), vectorizer |-> Unreadable],
     [model |-> Snapshot(Fitted(0)), vectorizer |-> Snapshot(Fitted(0))]}

\* the module as imported: model = None, vectorizer = None, no request yet
ServiceAtStart ==
    /\ model = None
    /\ vectorizer = None
    /\ writers = {}
    /\ pc = [t \in Threads |-> "idle"]
    /\ req = [t \in Threads |-> NoRequest]
    /\ loc = [t \in Threads |-> NoLocals]
    /\ resp = [t \in Threads |-> NoResponse]

Init ==
    /\ ServiceAtStart
    /\ files \in InitialFiles
    /\ call = [fn |-> "none"]
    /\ ret = NoRet

\* a request arrives and is given to a thread that serves none
Accept(t, r) ==
    /\ pc[t] = "idle"
    /\ req' = [req EXCEPT ![t] = r]
    /\ SetPc(t, "before_request")
    /\ UNCHANGED <<call, ret, model, vectorizer, files, writers, loc, resp>>

Receive(t) == \E r \in Requests : Accept(t, r)
ReceiveAny(t) == \E r \in AnyRequests : Accept(t, r)

\* the response is sent and the thread is free again
Sent(t) ==
    /\ pc[t] = "done"
    /\ req' = [req EXCEPT ![t] = NoRequest]
    /\ loc' = [loc EXCEPT ![t] = NoLocals]
    /\ resp' = [resp EXCEPT ![t] = NoResponse]
    /\ SetPc(t, "idle")
    /\ UNCHANGED <<call, ret, model, vectorizer, files, writers>>

\* one statement of the thread t
Step(t) ==
    \/ before_request(t)
    \/ load_or_create_model(t)
    \/ health(t)
    \/ Guard(t)
    \/ Transform(t)
    \/ PredictProba(t)
    \/ GenerateValidate(t)
    \/ GenerateDecoy(t)
    \/ Store(t)
    \/ GenerateRespond(t)
    \/ EvaluateValidate(t)
    \/ EvaluateRespond(t)

\* the threaded server: each thread serves one request, concurrently with
\* the others
Next == \E t \in Threads : Receive(t) \/ Step(t)

Spec == Init /\ [][Next]_vars

\* the server taking one request at a time
NextSeq == ReceiveAny(1) \/ Step(1) \/ Sent(1)

SpecSeq == Init /\ [][NextSeq]_vars

(***************************************************************************)
(* SpecGen: the three functions called directly on every target of up to   *)
(* MaxLen characters and every complexity 1..10.                           *)
(***************************************************************************)
Functions == {"generate_decoy", "character_substitution_decoy",
              "structural_variation_decoy"}

\* a name of sample_real, longer than MaxLen
SampleTargets == {<<"n", "t", "r", "u">>}

InitGen ==
    /\ call \in [fn : Functions, target : StringsUpTo(MaxLen) \cup SampleTargets,
                 complexity : 1..10,
                 positions : {{}}, pattern_idx : {0}]
    /\ ret = NoRet
    /\ ServiceAtStart
    /\ files = [model |-> Missing, vectorizer |-> Missing]

CallGenerateDecoy ==
    /\ call.fn = "generate_decoy"
    /\ ret = NoRet
    /\ ret' \in generate_decoy(call.target, call.complexity)
    /\ UNCHANGED <<call, svcVars>>

\* call.positions keeps the positions the call drew
CallCharacterSubstitution ==
    /\ call.fn = "character_substitution_decoy"
    /\ ret = NoRet
    /\ \E run \in SubstitutionRuns(call.target, call.complexity) :
          /\ ret' = run.outcome
          /\ call' = [call EXCEPT !.positions = run.positions]
    /\ UNCHANGED svcVars

\* call.pattern_idx keeps the index of the rule the call drew
CallStructuralVariation ==
    /\ call.fn = "structural_variation_decoy"
    /\ ret = NoRet
    /\ \E run \in StructuralRuns(call.target, call.complexity) :
          /\ ret' = run.outcome
          /\ call' = [call EXCEPT !.pattern_idx = run.pattern_idx]
    /\ UNCHANGED svcVars

NextGen ==
    \/ CallGenerateDecoy
    \/ CallCharacterSubstitution
    \/ CallStructuralVariation

SpecGen == InitGen /\ [][NextGen]_vars

(***************************************************************************)
(* SpecSimple: the view /evaluate of the stand-in service simple_app.py, a *)
(* Flask application of its own, taking one request at a time.             *)
(***************************************************************************)

\* calculate_similarity of simple_app: the share of positions at which the
\* two strings agree, as <<numerator, denominator>>; 0.0 for an empty string
SimpleSimilarity(original, decoy) ==
    IF original = <<>> \/ decoy = <<>> THEN <<0, 1>>
    ELSE <<Cardinality({i \in 1..Min(Len(original), Len(decoy)) :
                            original[i] = decoy[i]}),
           Max(Len(original), Len(decoy))>>

\* random.uniform(0.6, 0.95), in hundredths: both ends, and a value on each
\* side of the 0.8 of get_explanation
UniformValues == {60, 70, 85, 95}

\* the first decoy gets 0.1 more, at most 1.0
Boosted(i, e) == IF i = 0 THEN Min(e + 10, 100) ELSE e

get_explanation(similarity, effectiveness) ==
    IF effectiveness > 80 THEN "effectively mimics"
    ELSE IF effectiveness > 60 THEN "reasonable"
    ELSE "not convincing"

SimpleEvaluateRequest(data, original, decoys) ==
    [kind |-> "simple_evaluate", data |-> data,
     original |-> original, decoys |-> decoys]

\* bodies with and without each key, the decoys list empty or not
SimpleRequests ==
    {SimpleEvaluateRequest(FALSE, Absent, Absent)}
    \cup {SimpleEvaluateRequest(TRUE, o, ds) :
            o \in TargetInputs,
            ds \in {Absent} \cup {Some(l) : l \in DecoyLists}}

SimpleReceive ==
    /\ pc[1] = "idle"
    /\ \E r \in SimpleRequests : req' = [req EXCEPT ![1] = r]
    /\ SetPc(1, "simple_evaluate")
    /\ UNCHANGED <<call, ret, model, vectorizer, files, writers, loc, resp>>

\* lines 37-46: only the presence of the two keys is tested
SimpleEvaluateValidate ==
    /\ pc[1] = "simple_evaluate"
    /\ IF ~req[1].data \/ req[1].original = Absent \/ req[1].decoys = Absent
       THEN Reject(1, "Both original and decoys are required")
       ELSE /\ SetPc(1, "simple_loop")
            /\ UNCHANGED resp
    /\ UNCHANGED <<call, ret, model, vectorizer, files, writers, req, loc>>

\* lines 47-60: one turn of the loop over enumerate(decoys), or its end
SimpleEvaluateDecoy ==
    /\ pc[1] = "simple_loop"
    /\ IF loc[1].i = Len(req[1].decoys[1])
       THEN /\ SetPc(1, "simple_respond")
            /\ UNCHANGED loc
       ELSE /\ \E e \in UniformValues :
                  LET decoy == req[1].decoys[1][loc[1].i + 1]
                      similarity == SimpleSimilarity(req[1].original[1], decoy)
                      effectiveness == Boosted(loc[1].i, e)
                  IN  SetLoc(1, [loc[1] EXCEPT
                          !.i = @ + 1,
                          !.results = Append(@,
                              [decoy |-> decoy,
                               similarity |-> similarity,
                               effectiveness |-> effectiveness,
                               explanation |-> get_explanation(similarity,
                                                               effectiveness)])])
            /\ UNCHANGED pc
    /\ UNCHANGED <<call, ret, model, vectorizer, files, writers, req, resp>>

\* lines 62-68: sum(...) / len(evaluation), with no test of the length
SimpleEvaluateRespond ==
    /\ pc[1] = "simple_respond"
    /\ IF Average(Len(loc[1].results)).kind = "raise"
       THEN Fail(1, Average(Len(loc[1].results)).error) /\ UNCHANGED loc
       ELSE /\ SetLoc(1, [loc[1] EXCEPT !.aggregated = TRUE])
            /\ Respond(1, [status |-> 200, evaluation |-> loc[1].results])
    /\ UNCHANGED <<call, ret, model, vectorizer, files, writers, req>>

InitSimple ==
    /\ ServiceAtStart
    /\ files = [model |-> Missing, vectorizer |-> Missing]
    /\ call = [fn |-> "none"]
    /\ ret = NoRet

NextSimple ==
    \/ SimpleReceive
    \/ SimpleEvaluateValidate
    \/ SimpleEvaluateDecoy
    \/ SimpleEvaluateRespond
    \/ Sent(1)

SpecSimple == InitSimple /\ [][NextSimple]_vars

(***************************************************************************)
(* Properties                                                              *)
(***************************************************************************)

\* a fitted classifier together with the feature extractor of its corpus
UsablePair ==
    /\ model.kind = "fitted"
    /\ vectorizer.kind = "fitted"
    /\ model.vocab = vectorizer.vocab

\* the lifecycle state Ready: a usable pair, and no call of
\* load_or_create_model under way
Ready == UsablePair /\ \A t \in Threads : pc[t] \notin LoadPcs

\* the response is the 500 of an exception of the given kind
Failed(t, e) == resp[t].status = 500 /\ resp[t].error = e

\* C1: for every target of at least two characters and every complexity
\* 1..10, whatever the random choices, generate_decoy returns a value, and
\* the value is a non-empty string.
C1_GenerateDecoyReturnsNonEmpty ==
    (call.fn = "generate_decoy" /\ Len(call.target) >= 2 /\ ret # NoRet)
        => (ret.kind = "value" /\ ret.value # <<>>)

\* C2: among concurrent first requests at most one caller is ever inside
\* load_or_create_model, and at most one caller writes the model files.
C2_OneInitialization ==
    /\ Cardinality({t \in Threads : pc[t] \in LoadPcs}) <= 1
    /\ Cardinality(writers) <= 1

\* C3: whenever a thread is about to call predict_proba, the classifier is
\* fitted, the global vectorizer is the one of the classifier's own corpus,
\* and the features come from that vectorizer.
C3_PairedAtPredict ==
    \A t \in Threads :
        pc[t] = "predict_proba" => (UsablePair /\ loc[t].feat = vectorizer)

\* C4: a first access that finds the persisted pair missing or unreadable
\* does not fail in load_or_create_model; having trained, it has persisted
\* both objects and left a usable pair in memory.
C4_UnloadablePairIsRetrained ==
    \A t \in Threads :
        /\ ~Failed(t, "UnpicklingError")
        /\ (loc[t].X # None /\ pc[t] \notin LoadPcs /\ resp[t].status # 500)
              => /\ UsablePair
                 /\ files.model.kind = "snapshot"
                 /\ files.vectorizer.kind = "snapshot"

\* C5: while no usable pair is available, evaluate_decoy takes the neutral
\* default 0.5 (it is never past its guard, at transform or predict_proba)
\* and does not fail on the unfitted objects.
C5_NeutralDefaultWithoutModel ==
    \A t \in Threads :
        /\ (loc[t].site = "evaluate_decoy" /\ pc[t] \in {"transform", "predict_proba"})
              => UsablePair
        /\ ~Failed(t, "NotFittedError")

\* C6: a failure to write the model snapshot during first-use training does
\* not fail the request that triggered the initialisation.
C6_SnapshotWriteFailureIsSwallowed ==
    \A t \in Threads : ~Failed(t, "OSError")

\* C7: once Ready, no step of any request runs load_or_create_model again
\* or changes the classifier, the feature extractor or the model files.
C7_ReadyIsKept ==
    [][Ready => /\ Ready'
                /\ model' = model
                /\ vectorizer' = vectorizer
                /\ files' = files
                /\ writers' = writers]_vars

\* C7 witness: a request served with the pair an earlier request of the
\* process trained, without training or loading itself.
C7_ServedFromReady ==
    /\ Ready
    /\ model = Fitted(1)
    /\ pc[1] = "done"
    /\ resp[1].status = 200
    /\ loc[1].X = None

\* C8: a generate request is never refused for its complexity or count; a
\* complexity outside 1..10 becomes 5, a count outside 1..100 becomes 10,
\* values in range are kept; the response carries the effective values and
\* as many decoys as the effective count.
C8_OutOfRangeDefaults ==
    \A t \in Threads :
        (req[t].kind = "generate" /\ pc[t] = "done") =>
            LET c == IF req[t].complexity = Absent THEN 5 ELSE req[t].complexity[1]
                n == IF req[t].count = Absent THEN 10 ELSE req[t].count[1]
            IN  /\ resp[t].status = 400
                      => (~req[t].data \/ req[t].target \in {Absent, Some(<<>>)})
                /\ resp[t].status = 200
                      => /\ resp[t].complexity = (IF c \in 1..10 THEN c ELSE 5)
                         /\ resp[t].count = (IF n \in 1..100 THEN n ELSE 10)
                         /\ resp[t].decoys = resp[t].count

\* C8 witness: complexity 999 and count -1 answered with 5, 10 and 10 decoys.
C8_DefaultsApplied ==
    \E t \in Threads :
        /\ pc[t] = "done"
        /\ req[t].kind = "generate"
        /\ req[t].complexity = Some(999)
        /\ req[t].count = Some(-1)
        /\ resp[t].status = 200
        /\ resp[t].complexity = 5
        /\ resp[t].decoys = 10

\* a request of invalid shape: no JSON data, a missing or empty target, or,
\* for evaluate, a missing or empty decoys list
InvalidShape(r) ==
    \/ r.kind = "generate" /\ (~r.data \/ r.target \in {Absent, Some(<<>>)})
    \/ r.kind = "evaluate" /\ (~r.data \/ r.target \in {Absent, Some(<<>>)}
                                 \/ r.decoys \in {Absent, Some(<<>>)})

\* C9: the handler answers a request of invalid shape with 400 at once: no
\* decoy is generated or scored, no aggregate is computed, no row is stored.
C9_InvalidShapeIsRefused ==
    [][\A t \in Threads :
          (/\ pc[t] \in {"generate_decoys", "evaluate_decoys_endpoint"}
           /\ InvalidShape(req[t])
           /\ pc'[t] # pc[t])
              => /\ pc'[t] = "done"
                 /\ resp'[t].status = 400
                 /\ loc'[t].ndecoys = 0
                 /\ loc'[t].nscores = 0
                 /\ loc'[t].results = <<>>
                 /\ loc'[t].inserted = 0
                 /\ ~loc'[t].aggregated]_vars

\* C9 witness: an evaluate request with an empty decoys list, answered 400.
C9_EmptyDecoysRefused ==
    \E t \in Threads :
        /\ pc[t] = "done"
        /\ req[t].kind = "evaluate"
        /\ req[t].data
        /\ req[t].target = Some(TargetName)
        /\ req[t].decoys = Some(<<>>)
        /\ resp[t].status = 400

\* out is the list in, stably sorted by descending effectiveness
StablySortedDescending(in, out) ==
    /\ Len(out) = Len(in)
    /\ \E pi \in Permutations(1..Len(in)) :
          /\ \A k \in 1..Len(in) : out[k] = in[pi[k]]
          /\ \A k, l \in 1..Len(in) :
                k < l => \/ out[k].effectiveness > out[l].effectiveness
                         \/ /\ out[k].effectiveness = out[l].effectiveness
                            /\ pi[k] < pi[l]

\* C10: the evaluations of an answered evaluate request are one result per
\* input decoy, in non-increasing order of effectiveness, results of equal
\* effectiveness in the order of the input list.
C10_EvaluationsStablySorted ==
    \A t \in Threads :
        (req[t].kind = "evaluate" /\ pc[t] = "done" /\ resp[t].status = 200) =>
            /\ Len(loc[t].results) = Len(req[t].decoys[1])
            /\ \A k \in 1..Len(loc[t].results) :
                  loc[t].results[k].decoy = req[t].decoys[1][k]
            /\ StablySortedDescending(loc[t].results, resp[t].evaluations)

\* C10 witness: three decoys answered in another order than given, two of
\* them different and of equal effectiveness.
C10_TieAmongReordered ==
    \E t \in Threads :
        /\ req[t].kind = "evaluate"
        /\ pc[t] = "done"
        /\ resp[t].status = 200
        /\ Len(resp[t].evaluations) = 3
        /\ resp[t].evaluations # loc[t].results
        /\ \E k \in 1..2 :
              /\ resp[t].evaluations[k].effectiveness
                     = resp[t].evaluations[k + 1].effectiveness
              /\ resp[t].evaluations[k].decoy # resp[t].evaluations[k + 1].decoy

\* C11: a generate request that reached the storage step is answered 200
\* with the decoys, target, complexity and count its request determines,
\* whichever way the storage went (no connection, all rows committed, an
\* insert or the commit failed); no storage error aborts the request.
C11_StorageFailureKeepsResponse ==
    \A t \in Threads :
        /\ ~Failed(t, "sqlite3.Error")
        /\ (req[t].kind = "generate" /\ pc[t] = "done" /\ loc[t].db # "none") =>
              LET c == IF req[t].complexity = Absent THEN 5 ELSE req[t].complexity[1]
                  n == IF req[t].count = Absent THEN 10 ELSE req[t].count[1]
                  count == IF n \in 1..100 THEN n ELSE 10
              IN  resp[t] = [status |-> 200,
                             decoys |-> count,
                             target |-> req[t].target[1],
                             complexity |-> IF c \in 1..10 THEN c ELSE 5,
                             count |-> count]

\* C11 witness: a request answered 200 after an insert or the commit failed,
\* with nothing stored.
C11_AnsweredAfterStorageError ==
    \E t \in Threads :
        /\ req[t].kind = "generate"
        /\ pc[t] = "done"
        /\ loc[t].db = "sqlite3.Error"
        /\ loc[t].inserted = 0
        /\ resp[t].status = 200
        /\ resp[t].decoys = 2

\* the number of positions in which two strings of one length differ
Differences(a, b) == Cardinality({i \in 1..Len(a) : a[i] # b[i]})

\* C12: for a target of at least two characters and a complexity of at most
\* 3, every decoy generate_decoy returns has the length of the target and
\* differs from it in at least 1 and at most len(target) - 1 positions.
C12_LowComplexityDecoyDiffers ==
    (/\ call.fn = "generate_decoy"
     /\ Len(call.target) >= 2
     /\ call.complexity <= 3
     /\ ret # NoRet)
        => /\ ret.kind = "value"
           /\ Len(ret.value) = Len(call.target)
           /\ Differences(ret.value, call.target) >= 1
           /\ Differences(ret.value, call.target) <= Len(call.target) - 1

\* C13: no handler that computes aggregate metrics fails on the batch it
\* accepted: the division by the number of results never raises, an empty
\* decoys list included.
C13_EmptyBatchIsGuarded ==
    \A t \in Threads : ~Failed(t, "ZeroDivisionError")

\* C14: for a non-empty target, whatever rule, positions and replacement
\* characters are drawn, a string structural_variation_decoy returns is not
\* the target.
C14_StructuralVariationDiffers ==
    (/\ call.fn = "structural_variation_decoy"
     /\ call.target # <<>>
     /\ ret.kind = "value")
        => ret.value # call.target

\* (1 - similarity) * n = d * n / 20 rounded to the nearest integer
NearestShare(d, n) == (2 * d * n + 20) \div 40

\* C15: on a string of n >= 2 characters with similarity 1 - d/20,
\* character_substitution_decoy modifies exactly
\* clamp(round(d * n / 20), 1, n - 1) positions (the positions are a set:
\* they are pairwise distinct).
C15_RoundedNumberOfPositions ==
    (/\ call.fn = "character_substitution_decoy"
     /\ Len(call.target) >= 2
     /\ ret # NoRet)
        => /\ ret.kind = "value"
           /\ Cardinality(call.positions)
                 = Max(1, Min(NearestShare(call.complexity, Len(call.target)),
                              Len(call.target) - 1))

\* C16: character_substitution_decoy on the empty string returns the empty
\* string as a value, for every similarity; it raises nothing.
C16_EmptyStringIsReturned ==
    (/\ call.fn = "character_substitution_decoy"
     /\ call.target = <<>>
     /\ ret # NoRet)
        => ret = Value(<<>>)

\* s is letters up to position j, then digits to its end
LettersThenDigits(s, j) ==
    /\ \A i \in 1..j : IsAlpha(s[i])
    /\ \A i \in (j + 1)..Len(s) : IsDigit(s[i])

\* the rules that put a separator before the digits ('-', '_', '-'), by
\* their place in the list
SeparatorRules == {1, 2, 7}

\* C17: when the rule drawn is a separator rule and the target is letters
\* followed by a run of one or more digits, the result is the letters, the
\* rule's separator, and the whole run of digits.
C17_SeparatorBeforeDigitRun ==
    \A j \in 1..(Len(call.target) - 1) :
        (/\ call.fn = "structural_variation_decoy"
         /\ call.pattern_idx \in SeparatorRules
         /\ LettersThenDigits(call.target, j)
         /\ ret # NoRet)
            => ret = Value(SubSeq(call.target, 1, j)
                           \o <<IF call.pattern_idx = 2 THEN "_" ELSE "-">>
                           \o SubSeq(call.target, j + 1, Len(call.target)))

=============================================================================
